---- MODULE Spec2Model ----
(***************************************************************************)
(* Model of insights/combiners/ipcs_shm.py: the IpcsShmSegs combiner.      *)
(*                                                                         *)
(* The source mixes two spellings of the same names (a combiner for        *)
(* semaphores was copied to one for shared memory segments).  The model    *)
(* identifies them: _all_shms/_all_sems, _orphan_shms/_orphan_sems,        *)
(* semid/shm.shmid, sem.semid/sem.shmid, IpcsSemaphore/IpcsShmSeg.         *)
(* The name `data` is read at line 68 without ever being bound: what it    *)
(* holds before line 68 is a choice of the model (data_items), either      *)
(* nothing or the items of the process record being visited.               *)
(*                                                                         *)
(* Python values: identifiers, owners and pids are strings; None is the    *)
(* string "None"; the text of a size field is a sequence of characters so  *)
(* that str.isdigit and int can be computed; a dict is a function.         *)
(***************************************************************************)
EXTENDS Integers, Sequences, FiniteSets, TLC

\* ---------------------------------------------------------------- bounds
MaxShm == 3
MaxStrLen == 2

\* ------------------------------------------------------- the input space
None == "None"

Ids == {"65536", "65537"}
Owners == {"apache", "root"}
OwnerArgs == Owners \cup {"", None}
IdArgs == Ids

\* characters a size field is made of; "sup2" stands for U+00B2, a
\* character that is a digit for str.isdigit and no decimal for int
Decimal == {"0", "1", "2", "3", "4", "5", "6", "7", "8", "9"}
Chars == {"0", "1", "9", "-", "+", "a", "sup2"}

RECURSIVE SeqsUpTo(_, _)
SeqsUpTo(S, n) ==
    IF n = 0 THEN {<<>>}
    ELSE LET shorter == SeqsUpTo(S, n - 1)
         IN shorter \cup {Append(s, c) : s \in shorter, c \in S}

\* a record of ipcs -m: a dict with or without the key 'bytes'
SizeRecs(strings) == {<<>>} \cup {[bytes |-> s] : s \in strings}
SizeSources(ids, strings) ==
    UNION {[D -> SizeRecs(strings)] : D \in SUBSET ids}

\* a record of ipcs -m -p
ShmRecs(ids, owners, pidpairs) ==
    {[shmid |-> id, owner |-> o, cpid |-> p[1], lpid |-> p[2]] :
        id \in ids, o \in owners, p \in pidpairs}

VARIABLES
    ipcs_m,       \* the size source: shmid -> dict
    ipcs_mp,      \* the process source: sequence of records
    pids,         \* ps.running_pids()
    data_items,   \* what the unbound name `data` holds: "empty" or "shm"
    all_sems,     \* self._all_sems: shmid -> IpcsShmSeg
    orphan_sems_, \* self._orphan_sems: sequence of IpcsShmSeg
    i,            \* number of records of ipcs_mp the loop has visited
    pc,           \* "build", "ready" (constructed) or "error" (raised)
    ret           \* the last query and what it returned

vars == <<ipcs_m, ipcs_mp, pids, data_items, all_sems, orphan_sems_, i, pc, ret>>

\* ------------------------------------------------------------ str and int
isdigit_neg(s) ==
    /\ Len(s) > 0
    /\ \A k \in 1..Len(s) : s[k] \in Decimal \cup {"sup2"} \/ (k = 1 /\ s[k] = "-" /\ Len(s) > 1)

\* str.isdigit: non-empty and every character is a digit
isdigit(s) ==
    /\ Len(s) > 0
    /\ \A k \in 1..Len(s) : s[k] \in Decimal \cup {"sup2"}

DigitVal(c) ==
    CASE c = "0" -> 0 [] c = "1" -> 1 [] c = "2" -> 2 [] c = "3" -> 3
      [] c = "4" -> 4 [] c = "5" -> 5 [] c = "6" -> 6 [] c = "7" -> 7
      [] c = "8" -> 8 [] c = "9" -> 9

RECURSIVE DecVal(_)
DecVal(s) ==
    IF s = <<>> THEN 0
    ELSE 10 * DecVal(SubSeq(s, 1, Len(s) - 1)) + DigitVal(s[Len(s)])

IsDecimal(s) == Len(s) > 0 /\ \A k \in 1..Len(s) : s[k] \in Decimal

\* int(s): an optional sign and decimal digits, ValueError otherwise
int(s) ==
    LET signed == Len(s) > 0 /\ s[1] \in {"-", "+"}
        body == IF signed THEN SubSeq(s, 2, Len(s)) ELSE s
        sign == IF signed /\ s[1] = "-" THEN -1 ELSE 1
    IN IF IsDecimal(body)
       THEN [ok |-> TRUE, val |-> sign * DecVal(body)]
       ELSE [ok |-> FALSE, val |-> 0]

\* ------------------------------------------------------------- IpcsShmSeg
Defaults ==
    [shmid |-> None, owner |-> None, bytes |-> 0, is_orphan |-> FALSE,
     lpid |-> None, cpid |-> None]

\* the constructor: the defaults, then every item of data set as attribute
IpcsShmSeg(data) ==
    [k \in DOMAIN Defaults \cup DOMAIN data |->
        IF k \in DOMAIN data THEN data[k] ELSE Defaults[k]]

\* ------------------------------------------------------ IpcsShmSegs.__init__
\* lines 69-72: the size of one segment, or the exception the lines raise
Bytes(shm) ==
    IF shm.shmid \in DOMAIN ipcs_m
    THEN LET rec == ipcs_m[shm.shmid]
         IN IF "bytes" \notin DOMAIN rec
            THEN [raised |-> TRUE, val |-> 0]       \* None.isdigit()
            ELSE IF isdigit(rec.bytes)
                 THEN [raised |-> ~int(rec.bytes).ok, val |-> int(rec.bytes).val]
                 ELSE [raised |-> FALSE, val |-> 0]
    ELSE [raised |-> FALSE, val |-> 0]

IsOrphan_any(shm) == shm.cpid \notin pids \/ shm.lpid \notin pids

\* lines 74-76
IsOrphan(shm) == shm.cpid \notin pids /\ shm.lpid \notin pids

\* the dict `data` as line 78 passes it on
Data(shm) ==
    LET before == IF data_items = "shm"
                  THEN [owner |-> shm.owner, cpid |-> shm.cpid, lpid |-> shm.lpid]
                  ELSE <<>>
        written == [shmid |-> shm.shmid, bytes |-> Bytes(shm).val,
                    is_orphan |-> IsOrphan(shm)]
    IN [k \in DOMAIN before \cup DOMAIN written |->
           IF k \in DOMAIN written THEN written[k] ELSE before[k]]

\* one iteration of the loop of lines 67-81
BuildStep ==
    /\ pc = "build"
    /\ LET shm == ipcs_mp[i + 1]
           sem_obj == IpcsShmSeg(Data(shm))
       IN IF Bytes(shm).raised
          THEN /\ pc' = "error"
               /\ UNCHANGED <<all_sems, orphan_sems_, i>>
          ELSE /\ all_sems' = [id \in DOMAIN all_sems \cup {shm.shmid} |->
                                  IF id = shm.shmid THEN sem_obj ELSE all_sems[id]]
               /\ orphan_sems_' = IF IsOrphan(shm)
                                  THEN Append(orphan_sems_, sem_obj)
                                  ELSE orphan_sems_
               /\ i' = i + 1
               /\ pc' = IF i + 1 = Len(ipcs_mp) THEN "ready" ELSE "build"
    /\ UNCHANGED <<ipcs_m, ipcs_mp, pids, data_items, ret>>

\* ------------------------------------------------------------- the queries
Truthy(x) == x # None /\ x # ""

count_of_all_sems_orphans(owner) ==
    IF Truthy(owner)
    THEN Cardinality({id \in DOMAIN all_sems : all_sems[id].owner = owner})
    ELSE Len(orphan_sems_)

count_of_all_sems(owner) ==
    IF Truthy(owner)
    THEN Cardinality({id \in DOMAIN all_sems : all_sems[id].owner = owner})
    ELSE Cardinality(DOMAIN all_sems)

count_of_orphan_sems(owner) ==
    IF Truthy(owner)
    THEN Cardinality({k \in 1..Len(orphan_sems_) : orphan_sems_[k].owner = owner})
    ELSE Len(orphan_sems_)

orphan_sems_unfiltered(owner) ==
    [k \in 1..Len(orphan_sems_) |-> orphan_sems_[k].shmid]

orphan_sems(owner) ==
    IF Truthy(owner)
    THEN LET Belongs(sem) == sem.owner = owner
             kept == SelectSeq(orphan_sems_, Belongs)
         IN [k \in 1..Len(kept) |-> kept[k].shmid]
    ELSE [k \in 1..Len(orphan_sems_) |-> orphan_sems_[k].shmid]

\* dict.get: the value or None; the result is <<value>> or <<>> for None
get_sem(semid) ==
    IF semid \in DOMAIN all_sems THEN <<all_sems[semid]>> ELSE <<>>

Query(op, arg, val) ==
    /\ pc = "ready"
    /\ ret' = [op |-> op, arg |-> arg, val |-> val]
    /\ UNCHANGED <<ipcs_m, ipcs_mp, pids, data_items, all_sems, orphan_sems_, i, pc>>

CountAll == \E owner \in OwnerArgs : Query("count_of_all_sems", owner, count_of_all_sems(owner))

CountOrphans == \E owner \in OwnerArgs : Query("count_of_orphan_sems", owner, count_of_orphan_sems(owner))

OrphanSems == \E owner \in OwnerArgs : Query("orphan_sems", owner, orphan_sems(owner))

GetSem == \E semid \in IdArgs : Query("get_sem", semid, get_sem(semid))

\* ------------------------------------------------------ the specifications
InitWith(sources, shms, lives) ==
    /\ ipcs_m \in sources
    /\ ipcs_mp \in SeqsUpTo(shms, MaxShm)
    /\ pids \in lives
    /\ data_items \in {"empty", "shm"}
    /\ all_sems = <<>>
    /\ orphan_sems_ = <<>>
    /\ i = 0
    /\ pc = IF Len(ipcs_mp) = 0 THEN "ready" ELSE "build"
    /\ ret = [op |-> "none", arg |-> None, val |-> 0]

\* the registry's inputs: owners, pids and the live set vary
Init ==
    InitWith(SizeSources({"65536"}, {<<"1", "0">>}),
             ShmRecs(Ids, Owners, {<<"0", "0">>, <<"500", "0">>}),
             {{}, {"500"}, {"0"}})

\* the size fields vary
InitSize ==
    InitWith(SizeSources({"65536"}, SeqsUpTo(Chars, MaxStrLen)),
             ShmRecs(Ids, {"root"}, {<<"0", "0">>}),
             {{}})

Next == BuildStep \/ CountAll \/ CountOrphans \/ OrphanSems \/ GetSem

Spec == Init /\ [][Next]_vars

SpecSize == InitSize /\ [][Next]_vars

\* ------------------------------------------------------------- the claims
\* the identifiers of the whole process source
SourceIds == {ipcs_mp[k].shmid : k \in 1..Len(ipcs_mp)}

\* the last record of the process source that carries id
LastShm(id) ==
    LET last == CHOOSE k \in 1..Len(ipcs_mp) :
                    /\ ipcs_mp[k].shmid = id
                    /\ \A j \in (k + 1)..Len(ipcs_mp) : ipcs_mp[j].shmid # id
    IN ipcs_mp[last]

\* the first position of the process source that carries id
FirstIdx(id) ==
    CHOOSE k \in 1..Len(ipcs_mp) :
        /\ ipcs_mp[k].shmid = id
        /\ \A j \in 1..(k - 1) : ipcs_mp[j].shmid # id

C2_CountAllDistinct ==
    (ret.op = "count_of_all_sems" /\ ret.arg = None) =>
        ret.val = Cardinality(SourceIds)

C2_Witness ==
    /\ ret.op = "count_of_all_sems"
    /\ ret.arg = None
    /\ ret.val = 2
    /\ Len(ipcs_mp) = 3

\* C3: the bytes of every record is never negative; it is 0 when the size
\* source has no entry for the record's id or the size text is not a
\* non-empty string of decimal digits, and the value of the digits otherwise.
C3_SizeBytes ==
    \A id \in DOMAIN all_sems :
        LET b == all_sems[id].bytes
        IN /\ b >= 0
           /\ IF id \in DOMAIN ipcs_m /\ "bytes" \in DOMAIN ipcs_m[id]
                 /\ IsDecimal(ipcs_m[id].bytes)
              THEN b = DecVal(ipcs_m[id].bytes)
              ELSE b = 0

C3_Witness ==
    /\ pc = "ready"
    /\ DOMAIN all_sems = Ids
    /\ all_sems["65536"].bytes = 19
    /\ all_sems["65537"].bytes = 0

\* C4: the construction never raises, whatever the size source holds.
C4_NeverRaises == pc # "error"

\* C5: for every owner, count_of_orphan_sems(owner) is at most
\* count_of_orphan_sems() and at most count_of_all_sems(owner).
C5_OrphansAtMost ==
    (ret.op = "count_of_orphan_sems" /\ ret.arg \in Owners) =>
        /\ ret.val <= count_of_orphan_sems(None)
        /\ ret.val <= count_of_all_sems(ret.arg)

\* C6: with an owner given, the empty string included, the counts are the
\* numbers of records whose owner equals it, in the complete set and in the
\* orphan view; only with no owner is the total returned.
C6_ExactOwner ==
    /\ (ret.op = "count_of_all_sems" /\ ret.arg # None) =>
           ret.val = Cardinality({id \in DOMAIN all_sems :
                                     all_sems[id].owner = ret.arg})
    /\ (ret.op = "count_of_orphan_sems" /\ ret.arg # None) =>
           ret.val = Cardinality({k \in 1..Len(orphan_sems_) :
                                     orphan_sems_[k].owner = ret.arg})

\* C7: get_sem(id) returns the record built from the last process record
\* with that id, carrying its id, owner, cpid and lpid, and None for an id
\* that does not occur.
C7_GetSem ==
    ret.op = "get_sem" =>
        IF ret.arg \in SourceIds
        THEN /\ Len(ret.val) = 1
             /\ ret.val[1].shmid = ret.arg
             /\ ret.val[1].owner = LastShm(ret.arg).owner
             /\ ret.val[1].cpid = LastShm(ret.arg).cpid
             /\ ret.val[1].lpid = LastShm(ret.arg).lpid
        ELSE ret.val = <<>>

\* C8: the list orphan_sems(owner) returns is as long as
\* count_of_orphan_sems(owner), and a repeated call returns the same list.
C8_LengthAndRepeat ==
    /\ [](ret.op = "orphan_sems" => Len(ret.val) = count_of_orphan_sems(ret.arg))
    /\ [][(ret.op = "orphan_sems" /\ ret'.op = "orphan_sems" /\ ret'.arg = ret.arg)
             => ret'.val = ret.val]_vars

C8_Witness ==
    /\ ret.op = "orphan_sems"
    /\ ret.arg = "apache"
    /\ Len(ret.val) = 1
    /\ Len(orphan_sems_) = 2

\* C9: orphan_sems() lists the ids of the orphan records in the order the
\* ids were first met in the process source, each id once.
C9_FirstSeenOnce ==
    (ret.op = "orphan_sems" /\ ret.arg = None) =>
        /\ \A a, b \in 1..Len(ret.val) : a < b => ret.val[a] # ret.val[b]
        /\ \A a, b \in 1..Len(ret.val) :
               a < b => FirstIdx(ret.val[a]) < FirstIdx(ret.val[b])
        /\ {ret.val[k] : k \in 1..Len(ret.val)} =
               {id \in DOMAIN all_sems : all_sems[id].is_orphan}

\* C10: after every step of the loop the orphan view is the part of the
\* complete set flagged orphan: each of its records is the one stored under
\* its id, and each stored record flagged orphan is in it.
C10_ViewsAgree ==
    /\ \A k \in 1..Len(orphan_sems_) :
           /\ orphan_sems_[k].shmid \in DOMAIN all_sems
           /\ all_sems[orphan_sems_[k].shmid] = orphan_sems_[k]
    /\ \A id \in DOMAIN all_sems :
           all_sems[id].is_orphan =>
               \E k \in 1..Len(orphan_sems_) : orphan_sems_[k] = all_sems[id]
====
